---- MODULE Spec2Model ----
(***************************************************************************)
(* Model of the barbershop scheduling API (src/barber_api_production.py).  *)
(*                                                                         *)
(* The state is the relational store (one variable per table, a table is a *)
(* set of rows) together with the last request handled and its response.   *)
(* Every Flask handler is one action: it reads the request, runs its SQL   *)
(* statements against the tables and produces the HTTP response.           *)
(*                                                                         *)
(* Text values that the code compares with <= / >= (times of day, barber   *)
(* names) are sequences of character codes ordered as SQLite's BINARY      *)
(* collation orders them; the digits are 0..9 and ':' is 10, as in ASCII   *)
(* ':' follows '9'.  A nullable column holds {} (NULL) or {v}.             *)
(***************************************************************************)
EXTENDS FiniteSets, Integers, Sequences, TLC

VARIABLES
    barbers,              \* table barbers: rows [id, name, is_active]
    services,             \* table services: rows [id, name, duration_minutes, is_active]
    barber_services,      \* table barber_services: rows [barber_id, service_id]
    barber_availability,  \* table barber_availability
    reservations,         \* table reservations
    op,                   \* name of the handler that ran last
    request,              \* its request
    response,             \* its response
    inflight              \* the create_reservation call each worker thread is in

tables == <<barbers, services, barber_services, barber_availability, reservations>>
vars == <<barbers, services, barber_services, barber_availability, reservations,
          op, request, response, inflight>>

----------------------------------------------------------------------------
(* Bounds *)

\* number of availability ids uuid4 can hand out (size of the window table)
MaxWindows == 2
\* number of reservation ids uuid4 can hand out (size of the reservation table)
MaxReservations == 2

----------------------------------------------------------------------------
(* Values *)

Null == {}
Some(v) == {v}

RECURSIVE StrLess(_, _)
\* a < b for two TEXT values (memcmp order, a proper prefix first)
StrLess(a, b) ==
    IF b = <<>> THEN FALSE
    ELSE IF a = <<>> THEN TRUE
    ELSE IF Head(a) # Head(b) THEN Head(a) < Head(b)
    ELSE StrLess(Tail(a), Tail(b))

\* a <= b for two TEXT values
StrLE(a, b) == a = b \/ StrLess(a, b)

\* the calendar the requests fall in; 2024-01-01 is a Monday
Dates == <<"2024-01-01", "2024-01-02", "2024-01-03", "2024-01-04",
           "2024-01-05", "2024-01-06", "2024-01-07", "2024-01-08">>

\* datetime.fromisoformat: the parsed value, or {} when it raises ValueError.
\* A timestamp text is [kind, day, minute, suffix]; day counts from 2024-01-01.
fromisoformat(s) ==
    IF s.kind # "iso" THEN {}
    ELSE {[day |-> s.day, minute |-> s.minute,
           tzinfo |-> IF s.suffix = "" THEN "naive" ELSE s.suffix]}

\* str.replace('Z', '') on a timestamp text
replace_Z_empty(s) ==
    IF s.kind = "iso" /\ s.suffix = "Z" THEN [s EXCEPT !.suffix = ""] ELSE s

\* str.replace('Z', '+00:00') on a timestamp text
replace_Z_utc(s) ==
    IF s.kind = "iso" /\ s.suffix = "Z" THEN [s EXCEPT !.suffix = "+00:00"] ELSE s

\* dt + timedelta(minutes = n)
plus_minutes(dt, n) ==
    LET total == dt.day * (24 * 60) + dt.minute + n
    IN  [dt EXCEPT !.day = total \div (24 * 60), !.minute = total % (24 * 60)]

\* datetime.weekday(): Monday is 0
weekday(dt) == dt.day % 7

\* dt.strftime('%H:%M')
strftime_HM(dt) ==
    LET h == dt.minute \div 60
        m == dt.minute % 60
    IN  <<h \div 10, h % 10, 10, m \div 10, m % 10>>

\* dt.strftime('%Y-%m-%d')
strftime_Ymd(dt) == Dates[dt.day + 1]

\* dt.isoformat()
isoformat(dt) ==
    [date |-> strftime_Ymd(dt), time |-> strftime_HM(dt),
     offset |-> IF dt.tzinfo = "naive" THEN "" ELSE dt.tzinfo]

\* the sequences that list the rows of S once each, ORDER BY name
OrderByName(S) ==
    {s \in [1..Cardinality(S) -> S] :
        /\ \A i, j \in 1..Cardinality(S) : i # j => s[i] # s[j]
        /\ \A i, j \in 1..Cardinality(S) : i < j => StrLE(s[i].name, s[j].name)}

\* the threads of the server that serve requests at the same time
Workers == {1, 2}

\* a thread that serves no create_reservation call
Idle ==
    [pc |-> "idle",
     data |-> [customerName |-> "", serviceId |-> "", barberId |-> "",
               startTime |-> [kind |-> "empty", day |-> 0, minute |-> 0, suffix |-> ""]],
     reservation_id |-> 0, service |-> {}, barber |-> {}]

\* jsonify(...): the response of a handler
Response(code, error, rows, id) ==
    [code |-> code, error |-> error, rows |-> rows, id |-> id]

----------------------------------------------------------------------------
(* The persisted database at start-up *)

\* default_services, with the rows an administrator has switched off
InitServices ==
    {[id |-> "fade", name |-> "Fade", duration_minutes |-> 45, is_active |-> 1],
     [id |-> "barba", name |-> "Arreglo de Barba", duration_minutes |-> 20,
      is_active |-> 0]}

\* barbers registered by earlier logins; name is email.split('@')[0].title()
\* "Bruno" = <<2,18,21,14,15>>, "Ana" = <<1,14,1>> (letters numbered from A = 1)
InitBarbers ==
    {{[id |-> "b1", name |-> <<2, 18, 21, 14, 15>>, is_active |-> 1],
      [id |-> "b2", name |-> <<1, 14, 1>>, is_active |-> a]} : a \in {0, 1}}

Init ==
    /\ barbers \in InitBarbers
    /\ services = InitServices
    /\ barber_services = {}
    /\ barber_availability = {}
    /\ reservations = {}
    /\ op = "init_database"
    /\ request = [none |-> TRUE]
    /\ response = Response(0, "", <<>>, 0)
    /\ inflight = [w \in Workers |-> Idle]

----------------------------------------------------------------------------
(* POST /api/barber/<barber_id>/services *)

RECURSIVE InsertServices(_, _, _)
\* the loop of INSERT INTO barber_services over service_ids
InsertServices(rows, barber_id, service_ids) ==
    IF service_ids = <<>> THEN rows
    ELSE InsertServices(rows \cup {[barber_id |-> barber_id,
                                    service_id |-> Head(service_ids)]},
                        barber_id, Tail(service_ids))

barber_services_post(barber_id, service_ids) ==
    /\ barber_services' =
          InsertServices({r \in barber_services : r.barber_id # barber_id},
                         barber_id, service_ids)
    /\ op' = "barber_services"
    /\ request' = [barber_id |-> barber_id, serviceIds |-> service_ids]
    /\ response' = Response(201, "", <<>>, 0)
    /\ UNCHANGED <<barbers, services, barber_availability, reservations, inflight>>

----------------------------------------------------------------------------
(* POST /api/barber/<barber_id>/availability *)

\* the row INSERT INTO barber_availability adds
AvailabilityRow(availability_id, barber_id, data) ==
    [id |-> availability_id,
     barber_id |-> barber_id,
     day_of_week |-> data.dayOfWeek,
     specific_date |-> data.specificDate,
     start_time |-> data.startTime,
     end_time |-> data.endTime,
     is_available |-> IF data.isAvailable THEN 1 ELSE 0,
     is_active |-> 1]

barber_availability_post(barber_id, data, availability_id) ==
    /\ \A w \in barber_availability : w.id # availability_id   \* uuid4 is fresh
    /\ barber_availability' =
          barber_availability \cup {AvailabilityRow(availability_id, barber_id, data)}
    /\ op' = "barber_availability"
    /\ request' = [barber_id |-> barber_id, data |-> data]
    /\ response' = Response(201, "", <<>>, availability_id)
    /\ UNCHANGED <<barbers, services, barber_services, reservations, inflight>>

----------------------------------------------------------------------------
(* DELETE /api/barber/availability/<availability_id> *)

\* the DELETE without its WHERE clause
DeleteAvailabilityRows_NoWhere(rows, availability_id) == {}

\* DELETE FROM barber_availability WHERE id = ?
DeleteAvailabilityRows(rows, availability_id) ==
    {w \in rows : w.id # availability_id}

delete_availability(availability_id) ==
    /\ barber_availability' = DeleteAvailabilityRows(barber_availability, availability_id)
    /\ op' = "delete_availability"
    /\ request' = [availability_id |-> availability_id]
    /\ response' = Response(200, "", <<>>, 0)
    /\ UNCHANGED <<barbers, services, barber_services, reservations, inflight>>

----------------------------------------------------------------------------
(* GET /api/available-barbers *)

\* the day index left at Python's Monday = 0
DayOfWeek_Unshifted(dt) == weekday(dt)

\* (requested_datetime.weekday() + 1) % 7
DayOfWeek(dt) == (weekday(dt) + 1) % 7

\* the WHERE clause with "ba.specific_date IS NULL" left out of the weekly branch
WindowMatches_WeeklyIgnoresDate(ba, requested_date, requested_start_time, requested_end_time, day_of_week) ==
    \/ /\ ba.specific_date = Some(requested_date)
       /\ StrLE(ba.start_time, requested_start_time)
       /\ StrLE(requested_end_time, ba.end_time)
    \/ /\ ba.day_of_week = Some(day_of_week)
       /\ StrLE(ba.start_time, requested_start_time)
       /\ StrLE(requested_end_time, ba.end_time)

\* the WHERE clause on one availability row
WindowMatches(ba, requested_date, requested_start_time, requested_end_time, day_of_week) ==
    \/ /\ ba.specific_date = Some(requested_date)
       /\ StrLE(ba.start_time, requested_start_time)
       /\ StrLE(requested_end_time, ba.end_time)
    \/ /\ ba.specific_date = Null
       /\ ba.day_of_week = Some(day_of_week)
       /\ StrLE(ba.start_time, requested_start_time)
       /\ StrLE(requested_end_time, ba.end_time)

\* SELECT DISTINCT b.id, b.name, b.bio FROM barbers b INNER JOIN ... WHERE ...
SelectAvailableBarbers(service_id, requested_date, start_time, end_time, day_of_week) ==
    LET joined == {j \in barbers \X barber_availability \X barber_services :
                      /\ j[1].id = j[2].barber_id
                      /\ j[1].id = j[3].barber_id}
        rows == {j \in joined :
                      /\ j[1].is_active = 1
                      /\ j[2].is_active = 1
                      /\ j[2].is_available = 1
                      /\ j[3].service_id = service_id
                      /\ WindowMatches(j[2], requested_date, start_time, end_time,
                                       day_of_week)}
    IN  {[id |-> j[1].id, name |-> j[1].name] : j \in rows}

\* the responses the handler can give to a request
AvailableBarbersResponses(service_id, date_time_str) ==
    IF service_id = "" \/ date_time_str.kind = "empty"
    THEN {Response(400, "Missing parameters", <<>>, 0)}
    ELSE IF fromisoformat(replace_Z_utc(date_time_str)) = {}
    THEN {Response(500, "ValueError", <<>>, 0)}
    ELSE LET requested_datetime ==
                 CHOOSE dt \in fromisoformat(replace_Z_utc(date_time_str)) : TRUE
             service == {s \in services : s.id = service_id}
         IN  IF service = {}
             THEN {Response(404, "Service not found", <<>>, 0)}
             ELSE LET duration_minutes == (CHOOSE s \in service : TRUE).duration_minutes
                      end_datetime == plus_minutes(requested_datetime, duration_minutes)
                      found == SelectAvailableBarbers(service_id,
                                   strftime_Ymd(requested_datetime),
                                   strftime_HM(requested_datetime),
                                   strftime_HM(end_datetime),
                                   DayOfWeek(requested_datetime))
                  IN  {Response(200, "", rows, 0) : rows \in OrderByName(found)}

get_available_barbers(service_id, date_time_str) ==
    /\ response' \in AvailableBarbersResponses(service_id, date_time_str)
    /\ op' = "get_available_barbers"
    /\ request' = [serviceId |-> service_id, dateTime |-> date_time_str]
    /\ UNCHANGED <<tables, inflight>>

----------------------------------------------------------------------------
(* POST /api/reservations *)

\* the row with the end time taken from the start
ReservationRow_EndIsStart(reservation_id, customer_name, service_id, barber_id, start_dt, end_dt) ==
    [id |-> reservation_id,
     customer_name |-> customer_name,
     service_id |-> service_id,
     barber_id |-> barber_id,
     start_time |-> isoformat(start_dt),
     end_time |-> isoformat(start_dt),
     status |-> Some("PENDING")]

\* the row INSERT INTO reservations adds
ReservationRow(reservation_id, customer_name, service_id, barber_id, start_dt, end_dt) ==
    [id |-> reservation_id,
     customer_name |-> customer_name,
     service_id |-> service_id,
     barber_id |-> barber_id,
     start_time |-> isoformat(start_dt),
     end_time |-> isoformat(end_dt),
     status |-> Some("PENDING")]

\* the barber looked up before the service
LookupError_BarberFirst(service, barber) ==
    IF barber = {} THEN "Barber not found"
    ELSE IF service = {} THEN "Service not found"
    ELSE ""

\* the two lookups: the error of the first that finds no row, "" when both find one
LookupError(service, barber) ==
    IF service = {} THEN "Service not found"
    ELSE IF barber = {} THEN "Barber not found"
    ELSE ""

\* the outcome of the handler: the response and the rows it inserts
CreateReservationOutcome(data, reservation_id) ==
    IF data.customerName = "" \/ data.serviceId = "" \/ data.barberId = ""
          \/ data.startTime.kind = "empty"
    THEN [response |-> Response(400, "Missing required fields", <<>>, 0), insert |-> {}]
    ELSE LET service == {s \in services : s.id = data.serviceId}
             barber == {b \in barbers : b.id = data.barberId}
             parsed == fromisoformat(replace_Z_empty(data.startTime))
         IN  IF LookupError(service, barber) # ""
             THEN [response |-> Response(404, LookupError(service, barber), <<>>, 0),
                   insert |-> {}]
             ELSE IF parsed = {}
             THEN [response |-> Response(500, "ValueError", <<>>, 0), insert |-> {}]
             ELSE LET s == CHOOSE x \in service : TRUE
                      b == CHOOSE x \in barber : TRUE
                      start_dt == CHOOSE x \in parsed : TRUE
                      end_dt == plus_minutes(start_dt, s.duration_minutes)
                  IN  [response |->
                          Response(201, "",
                                   <<[id |-> reservation_id,
                                      customer_name |-> data.customerName,
                                      service_name |-> s.name,
                                      barber_name |-> b.name,
                                      start_time |-> isoformat(start_dt),
                                      end_time |-> isoformat(end_dt),
                                      status |-> "PENDING"]>>,
                                   reservation_id),
                       insert |-> {ReservationRow(reservation_id, data.customerName,
                                                  data.serviceId, data.barberId,
                                                  start_dt, end_dt)}]

\* the handler with the INSERT issued before the barber is looked up
create_reservation_InsertEarly(data, reservation_id) ==
    LET outcome == CreateReservationOutcome(data, reservation_id)
        early == IF outcome.response.error = "Barber not found"
                 THEN {[id |-> reservation_id,
                        customer_name |-> data.customerName,
                        service_id |-> data.serviceId,
                        barber_id |-> data.barberId,
                        start_time |-> data.startTime,
                        end_time |-> data.startTime,
                        status |-> Some("PENDING")]}
                 ELSE outcome.insert
    IN  /\ early # {} => \A r \in reservations : r.id # reservation_id
        /\ reservations' = reservations \cup early
        /\ response' = outcome.response
        /\ op' = "create_reservation"
        /\ request' = data
        /\ UNCHANGED <<barbers, services, barber_services, barber_availability, inflight>>

create_reservation(data, reservation_id) ==
    LET outcome == CreateReservationOutcome(data, reservation_id)
    IN  /\ outcome.insert # {} =>
              \A r \in reservations : r.id # reservation_id   \* uuid4 is fresh
        /\ reservations' = reservations \cup outcome.insert
        /\ response' = outcome.response
        /\ op' = "create_reservation"
        /\ request' = data
        /\ UNCHANGED <<barbers, services, barber_services, barber_availability, inflight>>

----------------------------------------------------------------------------
(* PATCH /api/reservations/<reservation_id>/status *)

\* the UPDATE without its WHERE clause
UpdateStatusRows_NoWhere(rows, status, reservation_id) ==
    {[r EXCEPT !.status = status] : r \in rows}

\* the UPDATE that drops the row when the new status is NULL
UpdateStatusRows_DropsNull(rows, status, reservation_id) ==
    {IF r.id = reservation_id THEN [r EXCEPT !.status = status] ELSE r :
        r \in {x \in rows : x.id # reservation_id \/ status # {}}}

\* the UPDATE that leaves a CANCELLED or COMPLETED reservation as it is
UpdateStatusRows_FinalStatuses(rows, status, reservation_id) ==
    {IF r.id = reservation_id /\ r.status \notin {{"CANCELLED"}, {"COMPLETED"}}
     THEN [r EXCEPT !.status = status] ELSE r : r \in rows}

\* UPDATE reservations SET status = ? WHERE id = ?
UpdateStatusRows(rows, status, reservation_id) ==
    {IF r.id = reservation_id THEN [r EXCEPT !.status = status] ELSE r : r \in rows}

update_reservation_status(reservation_id, status) ==
    /\ reservations' = UpdateStatusRows(reservations, status, reservation_id)
    /\ response' = Response(200, "", <<>>, 0)
    /\ op' = "update_reservation_status"
    /\ request' = [reservation_id |-> reservation_id, status |-> status]
    /\ UNCHANGED <<barbers, services, barber_services, barber_availability, inflight>>

----------------------------------------------------------------------------
(* Inputs *)

BarberIds == {"b1", "b2"}

\* "09:00", "23:45"
T0900 == <<0, 9, 10, 0, 0>>
T2345 == <<2, 3, 10, 4, 5>>

\* request bodies of POST availability
\* (a weekly Monday window or one for 2024-01-01, 09:00-23:45, open or blackout;
\* and a weekly window with start and end inverted, 23:45-09:00)
AvailabilityData ==
    {[dayOfWeek |-> k[1], specificDate |-> k[2], startTime |-> T0900, endTime |-> T2345,
      isAvailable |-> a] :
        k \in {<<Some(1), Null>>, <<Null, Some("2024-01-01")>>}, a \in BOOLEAN}
    \cup
    {[dayOfWeek |-> Some(1), specificDate |-> Null, startTime |-> T2345,
      endTime |-> T0900, isAvailable |-> TRUE]}

Iso(day, minute, suffix) ==
    [kind |-> "iso", day |-> day, minute |-> minute, suffix |-> suffix]
EmptyText == [kind |-> "empty", day |-> 0, minute |-> 0, suffix |-> ""]
Malformed == [kind |-> "malformed", day |-> 0, minute |-> 0, suffix |-> ""]

\* dateTime parameters: Monday 10:00, Monday 23:30, Tuesday 10:00 (with a Z)
QueryTimes == {Iso(0, 600, ""), Iso(0, 1410, ""), Iso(1, 600, "Z")}

\* query strings of GET available-barbers
Queries ==
    ({"fade", "barba"} \X QueryTimes)
        \cup {<<"nope", Iso(0, 600, "")>>, <<"", Iso(0, 600, "")>>,
              <<"fade", EmptyText>>, <<"nope", Malformed>>}

ServiceLists == {<<>>, <<"fade">>, <<"fade", "barba">>}

\* request bodies of POST reservations: Monday 10:00 and two slots that end after
\* midnight, then one body per way of failing
ReservationData ==
    {[customerName |-> "Ana", serviceId |-> "fade", barberId |-> "b1",
      startTime |-> Iso(0, 600, "")],
     [customerName |-> "Ana", serviceId |-> "barba", barberId |-> "b2",
      startTime |-> Iso(0, 1425, "Z")],
     [customerName |-> "Ana", serviceId |-> "fade", barberId |-> "b2",
      startTime |-> Iso(0, 1410, "")],
     [customerName |-> "", serviceId |-> "nope", barberId |-> "b9",
      startTime |-> Iso(0, 600, "")],
     [customerName |-> "Ana", serviceId |-> "", barberId |-> "b1",
      startTime |-> Iso(0, 600, "")],
     [customerName |-> "Ana", serviceId |-> "fade", barberId |-> "",
      startTime |-> Iso(0, 600, "")],
     [customerName |-> "Ana", serviceId |-> "nope", barberId |-> "b9",
      startTime |-> EmptyText],
     [customerName |-> "Ana", serviceId |-> "nope", barberId |-> "b1",
      startTime |-> Iso(0, 600, "")],
     [customerName |-> "Ana", serviceId |-> "nope", barberId |-> "b9",
      startTime |-> Malformed],
     [customerName |-> "Ana", serviceId |-> "fade", barberId |-> "b9",
      startTime |-> Malformed],
     [customerName |-> "Ana", serviceId |-> "fade", barberId |-> "b1",
      startTime |-> Malformed]}

\* the status values of PATCH status; None is stored as NULL
StatusValues == {Some("CONFIRMED"), Null}

----------------------------------------------------------------------------
(* The availability side of the API: the resolver reads no reservation *)

NextResolver ==
    \/ \E b \in BarberIds, l \in ServiceLists : barber_services_post(b, l)
    \/ \E b \in BarberIds, d \in AvailabilityData, i \in 1..MaxWindows :
          barber_availability_post(b, d, i)
    \/ \E i \in 0..MaxWindows : delete_availability(i)
    \/ \E q \in Queries : get_available_barbers(q[1], q[2])

SpecResolver == Init /\ [][NextResolver]_vars

----------------------------------------------------------------------------
(* Properties of the resolver, checked under SpecResolver *)

\* the request the last handler answered, as the caller meant it
ReqDay == request.dateTime.day
ReqMinute == request.dateTime.minute
ReqService == {s \in services : s.id = request.serviceId}
ReqDuration == (CHOOSE s \in ReqService : TRUE).duration_minutes

\* a resolver call whose parameters are present and well formed
ResolverAnswered ==
    /\ op = "get_available_barbers"
    /\ request.serviceId # ""
    /\ request.dateTime.kind = "iso"

\* "HH:MM" of a minute of the day
TimeOfDay(minute) ==
    <<(minute \div 60) \div 10, (minute \div 60) % 10, 10,
      (minute % 60) \div 10, (minute % 60) % 10>>

ReqStartStr == TimeOfDay(ReqMinute)
ReqEndStr == TimeOfDay((ReqMinute + ReqDuration) % (24 * 60))

\* the day of the week with 0 = Sunday .. 6 = Saturday, read off the calendar
WeekdayNames == <<"Mon", "Tue", "Wed", "Thu", "Fri", "Sat", "Sun">>
SundayFirst == <<"Sun", "Mon", "Tue", "Wed", "Thu", "Fri", "Sat">>
SundayIndex(day) ==
    CHOOSE i \in 0..6 : SundayFirst[i + 1] = WeekdayNames[(day % 7) + 1]

\* the barbers the response lists
Returned == {response.rows[i].id : i \in 1..Len(response.rows)}

\* W covers the requested slot as the time-of-day texts compare
Covers(W) ==
    /\ StrLE(W.start_time, ReqStartStr)
    /\ StrLE(ReqEndStr, W.end_time)

OnRequestedDate(W) == W.specific_date = {Dates[ReqDay + 1]}
OnRequestedWeekday(W) == W.specific_date = {} /\ W.day_of_week = {SundayIndex(ReqDay)}

Offers(B) ==
    \E o \in barber_services : o.barber_id = B.id /\ o.service_id = request.serviceId

\* B is a candidate for the request
Candidate(B) ==
    /\ B.is_active = 1
    /\ Offers(B)
    /\ \E W \in barber_availability :
          /\ W.barber_id = B.id
          /\ W.is_active = 1
          /\ W.is_available = 1
          /\ Covers(W)
          /\ OnRequestedDate(W) \/ OnRequestedWeekday(W)

\* C1: for a service id that resolves and a requested start, the resolver answers
\* with exactly the candidate barbers: B is listed iff B is active, offers the
\* service and owns an active, available window that covers
\* [timeOfDay(start), timeOfDay(start + duration)] on the start's date, or, with no
\* date of its own, on the start's day of the week (0 = Sunday).
C1_ReturnsExactlyCandidates ==
    (ResolverAnswered /\ ReqService # {}) =>
        /\ response.code = 200
        /\ \A B \in barbers : B.id \in Returned <=> Candidate(B)

\* a call that lists one barber and leaves out another that owns a window
C1_Witness ==
    /\ ResolverAnswered
    /\ response.code = 200
    /\ Len(response.rows) = 1
    /\ \E B \in barbers :
          /\ B.id \notin Returned
          /\ \E W \in barber_availability : W.barber_id = B.id

\* C2: a slot whose end falls on the next calendar day (time of day of the end
\* before that of the start) makes the resolver return no barber, whatever windows
\* are stored.
C2_MidnightCrossingMatchesNothing ==
    (ResolverAnswered /\ response.code = 200 /\ StrLess(ReqEndStr, ReqStartStr)) =>
        response.rows = <<>>

\* C3: the resolver answers NotFound whenever the service id does not resolve to
\* an active service: no service has the id, or the one that has it is inactive.
C3_InactiveOrUnknownServiceNotFound ==
    (ResolverAnswered /\ ~ \E s \in ReqService : s.is_active = 1) =>
        response.code = 404

\* C9: every stored availability window has start time < end time.
C9_WindowStartBeforeEnd ==
    \A W \in barber_availability : StrLess(W.start_time, W.end_time)

\* the windows of B that bear on the requested date
DateWindows(B) ==
    {W \in barber_availability :
        W.barber_id = B.id /\ W.is_active = 1 /\ OnRequestedDate(W)}
WeeklyWindows(B) ==
    {W \in barber_availability :
        W.barber_id = B.id /\ W.is_active = 1 /\ OnRequestedWeekday(W)}
Opens(W) == W.is_available = 1 /\ Covers(W)

\* C10: when an active barber that offers the service has one window for the
\* requested date and one weekly window for its weekday, and the two disagree on
\* whether the slot is open, the window for the date decides: the barber is listed
\* iff that window opens the slot.
C10_DateWindowDecides ==
    (ResolverAnswered /\ response.code = 200) =>
        \A B \in barbers :
            (/\ B.is_active = 1
             /\ Offers(B)
             /\ Cardinality(DateWindows(B)) = 1
             /\ Cardinality(WeeklyWindows(B)) = 1
             /\ \E D \in DateWindows(B), R \in WeeklyWindows(B) : Opens(D) # Opens(R))
            => (B.id \in Returned <=> \E D \in DateWindows(B) : Opens(D))

\* C11: removeWindow is idempotent: it returns success for every id, removes the
\* window with that id and no other, and on an id that no window has (a second
\* call, or an id that never existed) it leaves the table as it was.
C11_RemoveWindowIdempotent ==
    [][op' = "delete_availability" =>
          /\ response'.code = 200
          /\ barber_availability' \subseteq barber_availability
          /\ \A W \in barber_availability :
                W \in barber_availability' <=> W.id # request'.availability_id
          /\ (~ \E W \in barber_availability : W.id = request'.availability_id) =>
                barber_availability' = barber_availability
          /\ (op = "delete_availability"
                 /\ request.availability_id = request'.availability_id) =>
                barber_availability' = barber_availability]_vars

\* a removal of an id that no stored window has, with other windows stored
C11_Witness ==
    /\ op = "delete_availability"
    /\ response.code = 200
    /\ barber_availability # {}
    /\ ~ \E W \in barber_availability : W.id = request.availability_id

----------------------------------------------------------------------------
(* The whole API *)

\* one open Monday window
OneWindow ==
    [dayOfWeek |-> Some(1), specificDate |-> Null, startTime |-> T0900,
     endTime |-> T2345, isAvailable |-> TRUE]

Next ==
    \/ barber_services_post("b1", <<"fade">>)
    \/ barber_availability_post("b1", OneWindow, 1)
    \/ delete_availability(1)
    \/ get_available_barbers("fade", Iso(0, 600, ""))
    \/ \E d \in ReservationData, i \in 1..MaxReservations : create_reservation(d, i)
    \/ \E i \in 0..MaxReservations, st \in StatusValues :
          update_reservation_status(i, st)

Spec == Init /\ [][Next]_vars

----------------------------------------------------------------------------
(* Properties of the reservation factory and the status update, under Spec *)

\* the minutes since 2024-01-01T00:00 that a stored timestamp reads as
MinutesOf(iso) ==
    LET day == CHOOSE d \in 0..(Len(Dates) - 1) : Dates[d + 1] = iso.date
        t == iso.time
    IN  day * (24 * 60) + (t[1] * 10 + t[2]) * 60 + t[4] * 10 + t[5]

\* the request body has a customer name, a service id and a barber id that
\* resolve, and a start time that parses
Bookable(data) ==
    /\ data.customerName # ""
    /\ \E s \in services : s.id = data.serviceId
    /\ \E b \in barbers : b.id = data.barberId
    /\ data.startTime.kind = "iso"

\* the barber cannot serve the slot data asks for: inactive, or no such offering,
\* or no window at all
Unavailable(data) ==
    \/ \E b \in barbers : b.id = data.barberId /\ b.is_active = 0
    \/ ~ \E o \in barber_services :
            o.barber_id = data.barberId /\ o.service_id = data.serviceId
    \/ ~ \E W \in barber_availability : W.barber_id = data.barberId

\* C4: a request with a non-empty customer name, a service id and a barber id
\* that resolve and a start time that parses succeeds and inserts exactly one new
\* reservation, PENDING, from the requested start to start + service.duration
\* minutes, whether or not the barber is available for it.
C4_CreateInsertsOnePending ==
    [][(op' = "create_reservation" /\ Bookable(request')) =>
          /\ response'.code = 201
          /\ \E r \in reservations' \ reservations :
                /\ reservations' = reservations \cup {r}
                /\ \A x \in reservations : x.id # r.id
                /\ r.customer_name = request'.customerName
                /\ r.service_id = request'.serviceId
                /\ r.barber_id = request'.barberId
                /\ r.status = {"PENDING"}
                /\ MinutesOf(r.start_time) =
                      request'.startTime.day * (24 * 60) + request'.startTime.minute
                /\ \E s \in services :
                      /\ s.id = r.service_id
                      /\ MinutesOf(r.end_time) =
                            MinutesOf(r.start_time) + s.duration_minutes]_vars

\* a booking made with an inactive barber, and one whose slot ends after midnight
C4_Witness ==
    /\ op = "create_reservation"
    /\ response.code = 201
    /\ Unavailable(request)
    /\ \E b \in barbers : b.id = request.barberId /\ b.is_active = 0
    /\ \E r \in reservations :
          r.id = response.id /\ r.start_time.date # r.end_time.date

\* C5: a createReservation call that returns an error leaves the reservation
\* table exactly as it was.
C5_FailedCreateChangesNothing ==
    [][(op' = "create_reservation" /\ response'.code \in {400, 404, 500}) =>
          reservations' = reservations]_vars

\* a NotFound for the barber answered while reservations are stored
C5_Witness ==
    /\ op = "create_reservation"
    /\ response.code = 404
    /\ response.error = "Barber not found"
    /\ reservations # {}

MissingField(data) ==
    \/ data.customerName = ""
    \/ data.serviceId = ""
    \/ data.barberId = ""
    \/ data.startTime.kind = "empty"

\* C6: createReservation checks in a fixed order: a missing or empty field gives
\* ValidationError whatever the store holds; otherwise a service id that does not
\* resolve gives NotFound for the service, also when the barber id does not
\* resolve either; NotFound for the barber is given only when the service
\* resolves and the barber does not.
C6_ChecksInOrder ==
    op = "create_reservation" =>
        LET noService == ~ \E s \in services : s.id = request.serviceId
            noBarber == ~ \E b \in barbers : b.id = request.barberId
        IN  /\ MissingField(request) => response.code = 400
            /\ (~ MissingField(request) /\ noService) =>
                  (response.code = 404 /\ response.error = "Service not found")
            /\ (~ MissingField(request) /\ ~ noService /\ noBarber) =>
                  (response.code = 404 /\ response.error = "Barber not found")
            /\ response.error = "Barber not found" =>
                  (~ MissingField(request) /\ ~ noService /\ noBarber)

\* neither the service nor the barber resolves: the service is reported
C6_Witness ==
    /\ op = "create_reservation"
    /\ ~ MissingField(request)
    /\ ~ \E s \in services : s.id = request.serviceId
    /\ ~ \E b \in barbers : b.id = request.barberId
    /\ response.error = "Service not found"

\* C7: updateStatus returns success for every reservation id; when no
\* reservation has the id the reservation table is left as it was.
C7_UpdateAlwaysSucceeds ==
    [][op' = "update_reservation_status" =>
          /\ response'.code = 200
          /\ (~ \E r \in reservations : r.id = request'.reservation_id) =>
                reservations' = reservations]_vars

\* a successful update of an id that no stored reservation has
C7_Witness ==
    /\ op = "update_reservation_status"
    /\ response.code = 200
    /\ reservations # {}
    /\ ~ \E r \in reservations : r.id = request.reservation_id

\* C8: a reservation, once created, stays in the table with its id, customer
\* name, service id, barber id, start and end; only the status update changes a
\* stored reservation, and only its status.
C8_ReservationsKeptAndImmutable ==
    [][\A r \in reservations :
          \E x \in reservations' :
             /\ x.id = r.id
             /\ x.customer_name = r.customer_name
             /\ x.service_id = r.service_id
             /\ x.barber_id = r.barber_id
             /\ x.start_time = r.start_time
             /\ x.end_time = r.end_time
             /\ x.status # r.status =>
                   (op' = "update_reservation_status"
                       /\ request'.reservation_id = r.id)]_vars

\* reservations, one with its status rewritten, outlive the removal of a window
C8_Witness ==
    /\ op = "delete_availability"
    /\ Cardinality(reservations) = 2
    /\ \E r \in reservations : r.status # {"PENDING"}

----------------------------------------------------------------------------
(* The status lifecycle: every status value written over every other *)

\* the status strings of PATCH status: the four of the data model and another
StatusStrings ==
    {Some("PENDING"), Some("CONFIRMED"), Some("CANCELLED"), Some("COMPLETED"),
     Some("bogus")}

\* two bookings to update
StatusReservationData ==
    {[customerName |-> "Ana", serviceId |-> "fade", barberId |-> "b1",
      startTime |-> Iso(0, 600, "")],
     [customerName |-> "Eva", serviceId |-> "barba", barberId |-> "b2",
      startTime |-> Iso(1, 600, "")]}

NextStatus ==
    \/ \E d \in StatusReservationData, i \in 1..MaxReservations :
          create_reservation(d, i)
    \/ \E i \in 0..MaxReservations, st \in StatusStrings :
          update_reservation_status(i, st)

SpecStatus == Init /\ [][NextStatus]_vars

\* C13: updateStatus enforces no transition order: for a stored reservation in
\* any status and any non-empty new status string, the reservation's status is the
\* new status after the call, its other fields and all other reservations are as
\* they were.
C13_AnyStatusOverAnyStatus ==
    [][(op' = "update_reservation_status" /\ request'.status # {}) =>
          /\ response'.code = 200
          /\ \A r \in reservations :
                IF r.id = request'.reservation_id
                THEN [r EXCEPT !.status = request'.status] \in reservations'
                ELSE r \in reservations'
          /\ Cardinality(reservations') = Cardinality(reservations)]_vars

\* PENDING written back by an update, while another reservation keeps a status
\* outside the four
C13_Witness ==
    /\ op = "update_reservation_status"
    /\ request.status = {"PENDING"}
    /\ \E r \in reservations : r.id = request.reservation_id /\ r.status = {"PENDING"}
    /\ \E r \in reservations : r.id # request.reservation_id /\ r.status = {"bogus"}

----------------------------------------------------------------------------
(* Windows that carry both a day of the week and a date *)

\* request bodies of POST availability: Monday (1) together with Tuesday
\* 2024-01-02, open or blackout, and a plain weekly Monday window
BothSetData ==
    {[dayOfWeek |-> Some(1), specificDate |-> Some("2024-01-02"), startTime |-> T0900,
      endTime |-> T2345, isAvailable |-> a] : a \in BOOLEAN}
    \cup
    {[dayOfWeek |-> Some(1), specificDate |-> Null, startTime |-> T0900,
      endTime |-> T2345, isAvailable |-> TRUE]}

\* fade on Monday 2024-01-01, Tuesday 2024-01-02 and Monday 2024-01-08, at 10:00
BothSetQueries ==
    {<<"fade", Iso(0, 600, "")>>, <<"fade", Iso(1, 600, "")>>, <<"fade", Iso(7, 600, "")>>}

NextBothSet ==
    \/ \E b \in BarberIds, l \in {<<>>, <<"fade">>} : barber_services_post(b, l)
    \/ \E b \in BarberIds, d \in BothSetData, i \in 1..MaxWindows :
          barber_availability_post(b, d, i)
    \/ \E i \in 1..MaxWindows : delete_availability(i)
    \/ \E q \in BothSetQueries : get_available_barbers(q[1], q[2])

SpecBothSet == Init /\ [][NextBothSet]_vars

BothSet(W) == W.day_of_week # {} /\ W.specific_date # {}

\* C14: addWindow accepts a window with both dayOfWeek and specificDate and stores
\* both; at match time such a window counts through its specificDate only: it
\* makes its active, offering barber a candidate on specificDate whatever that
\* date's weekday, and a barber is never listed on the strength of a window whose
\* specificDate is another date, whatever its dayOfWeek.
C14_BothSetCountsByDateOnly ==
    /\ (op = "barber_availability"
           /\ request.data.dayOfWeek # {} /\ request.data.specificDate # {}) =>
          /\ response.code = 201
          /\ \E W \in barber_availability :
                /\ W.id = response.id
                /\ W.barber_id = request.barber_id
                /\ W.day_of_week = request.data.dayOfWeek
                /\ W.specific_date = request.data.specificDate
    /\ (ResolverAnswered /\ response.code = 200) =>
          \A B \in barbers :
             /\ (/\ B.is_active = 1
                 /\ Offers(B)
                 /\ \E W \in barber_availability :
                       /\ W.barber_id = B.id /\ BothSet(W) /\ W.is_active = 1
                       /\ Opens(W) /\ OnRequestedDate(W))
                => B.id \in Returned
             /\ B.id \in Returned =>
                   \E W \in barber_availability :
                      /\ W.barber_id = B.id
                      /\ Opens(W)
                      /\ BothSet(W) => OnRequestedDate(W)

\* a barber listed on the window's date, a Tuesday, by a window whose dayOfWeek
\* is Monday, every stored window carrying both
C14_Witness ==
    /\ ResolverAnswered
    /\ response.code = 200
    /\ Returned # {}
    /\ \A W \in barber_availability :
          BothSet(W) /\ W.day_of_week # {SundayIndex(ReqDay)}

----------------------------------------------------------------------------
(* POST /api/reservations served by several threads: each call opens its own *)
(* connection and runs its statements one after the other, the statements of *)
(* other calls in between                                                    *)

\* an INSERT that a unique slot per barber would turn away
InsertReservation_UniqueSlot(rows, row) ==
    IF \E r \in rows : r.barber_id = row.barber_id /\ r.start_time.date = row.start_time.date
    THEN rows
    ELSE rows \cup {row}

\* INSERT INTO reservations ... ; conn.commit()
InsertReservation(rows, row) == rows \cup {row}

\* the call answers and its thread is free again
Answer(w, resp) ==
    /\ response' = resp
    /\ op' = "create_reservation"
    /\ request' = inflight[w].data
    /\ inflight' = [inflight EXCEPT ![w] = Idle]

\* request.json is read, the id drawn and the required fields tested
create_receive(w, data, reservation_id) ==
    /\ inflight[w].pc = "idle"
    /\ \A v \in Workers : inflight[v].reservation_id # reservation_id   \* uuid4 is fresh
    /\ IF data.customerName = "" \/ data.serviceId = "" \/ data.barberId = ""
             \/ data.startTime.kind = "empty"
       THEN /\ response' = Response(400, "Missing required fields", <<>>, 0)
            /\ op' = "create_reservation"
            /\ request' = data
            /\ UNCHANGED inflight
       ELSE /\ inflight' = [inflight EXCEPT ![w] =
                               [Idle EXCEPT !.pc = "select_service", !.data = data,
                                            !.reservation_id = reservation_id]]
            /\ UNCHANGED <<op, request, response>>
    /\ UNCHANGED tables

\* SELECT name, duration_minutes FROM services WHERE id = ?
create_select_service(w) ==
    /\ inflight[w].pc = "select_service"
    /\ LET service == {x \in services : x.id = inflight[w].data.serviceId}
       IN  IF service = {}
           THEN Answer(w, Response(404, "Service not found", <<>>, 0))
           ELSE /\ inflight' = [inflight EXCEPT ![w].pc = "select_barber",
                                                ![w].service = service]
                /\ UNCHANGED <<op, request, response>>
    /\ UNCHANGED tables

\* SELECT name FROM barbers WHERE id = ?
create_select_barber(w) ==
    /\ inflight[w].pc = "select_barber"
    /\ LET barber == {x \in barbers : x.id = inflight[w].data.barberId}
       IN  IF barber = {}
           THEN Answer(w, Response(404, "Barber not found", <<>>, 0))
           ELSE /\ inflight' = [inflight EXCEPT ![w].pc = "insert",
                                                ![w].barber = barber]
                /\ UNCHANGED <<op, request, response>>
    /\ UNCHANGED tables

\* the start is parsed, the row inserted and committed, the reservation returned
create_insert(w) ==
    /\ inflight[w].pc = "insert"
    /\ LET c == inflight[w]
           parsed == fromisoformat(replace_Z_empty(c.data.startTime))
       IN  IF parsed = {}
           THEN /\ Answer(w, Response(500, "ValueError", <<>>, 0))
                /\ UNCHANGED tables
           ELSE LET s == CHOOSE x \in c.service : TRUE
                    b == CHOOSE x \in c.barber : TRUE
                    start_dt == CHOOSE x \in parsed : TRUE
                    end_dt == plus_minutes(start_dt, s.duration_minutes)
                IN  /\ \A r \in reservations : r.id # c.reservation_id
                    /\ reservations' =
                          InsertReservation(reservations,
                              ReservationRow(c.reservation_id, c.data.customerName,
                                             c.data.serviceId, c.data.barberId,
                                             start_dt, end_dt))
                    /\ Answer(w, Response(201, "",
                                  <<[id |-> c.reservation_id,
                                     customer_name |-> c.data.customerName,
                                     service_name |-> s.name,
                                     barber_name |-> b.name,
                                     start_time |-> isoformat(start_dt),
                                     end_time |-> isoformat(end_dt),
                                     status |-> "PENDING"]>>,
                                  c.reservation_id))
                    /\ UNCHANGED <<barbers, services, barber_services,
                                   barber_availability>>

\* request bodies: b1 for a fade on Monday at 10:00 and at 10:30, and the ways to
\* fail
ConcurrentData ==
    {[customerName |-> "Ana", serviceId |-> "fade", barberId |-> "b1",
      startTime |-> Iso(0, 600, "")],
     [customerName |-> "Eva", serviceId |-> "fade", barberId |-> "b1",
      startTime |-> Iso(0, 630, "")],
     [customerName |-> "Eva", serviceId |-> "nope", barberId |-> "b1",
      startTime |-> Iso(0, 630, "")],
     [customerName |-> "Eva", serviceId |-> "fade", barberId |-> "b9",
      startTime |-> Malformed],
     [customerName |-> "Eva", serviceId |-> "fade", barberId |-> "b1",
      startTime |-> Malformed],
     [customerName |-> "", serviceId |-> "fade", barberId |-> "b1",
      startTime |-> Iso(0, 630, "")]}

NextConcurrent ==
    \/ \E w \in Workers, d \in ConcurrentData, i \in 1..MaxReservations :
          create_receive(w, d, i)
    \/ \E w \in Workers : create_select_service(w)
    \/ \E w \in Workers : create_select_barber(w)
    \/ \E w \in Workers : create_insert(w)

SpecConcurrent == Init /\ [][NextConcurrent]_vars

\* two reservations of one barber whose [start, end) slots overlap
Overlap(r1, r2) ==
    /\ r1.id # r2.id
    /\ r1.barber_id = r2.barber_id
    /\ MinutesOf(r1.start_time) < MinutesOf(r2.end_time)
    /\ MinutesOf(r2.start_time) < MinutesOf(r1.end_time)

\* C12: a createReservation request that is bookable (fields present, service and
\* barber resolve, start parses) is never turned away, at any statement of the
\* call, whatever reservations are stored and whatever another call in flight is
\* doing: its thread ends the call only after the INSERT, with success and with
\* exactly its one PENDING row added; so two requests for the same barber and
\* overlapping slots both succeed in every interleaving.
C12_OverlappingBookingsBothSucceed ==
    [][/\ \A w \in Workers :
             (/\ inflight[w].pc # "idle"
              /\ inflight'[w].pc = "idle"
              /\ Bookable(inflight[w].data)) =>
                /\ inflight[w].pc = "insert"
                /\ response'.code = 201
                /\ response'.id = inflight[w].reservation_id
                /\ \E r \in reservations' \ reservations :
                      /\ reservations' = reservations \cup {r}
                      /\ r.id = inflight[w].reservation_id
                      /\ r.barber_id = inflight[w].data.barberId
                      /\ r.status = {"PENDING"}
       /\ (inflight' = inflight /\ op' = "create_reservation") => ~ Bookable(request')
       /\ reservations \subseteq reservations']_vars

\* two PENDING reservations of one barber with overlapping slots are stored
C12_Witness ==
    /\ op = "create_reservation"
    /\ response.code = 201
    /\ \E r1, r2 \in reservations :
          /\ Overlap(r1, r2)
          /\ r1.status = {"PENDING"}
          /\ r2.status = {"PENDING"}
          /\ r1.start_time # r2.start_time

====
